---- MODULE Spec2Model ----
(***************************************************************************)
(* galemu: Bound<'a, T>, BoundExt::pre_drop and the adapter type generated *)
(* by create_gal_wrapper_type!, instantiated as in the crate's test module *)
(* (Connection { count }, Transaction<'conn> { conn: &'conn mut Connection *)
(* }, TransWrap).                                                          *)
(*                                                                         *)
(* A lifetime is the last instant at which it is valid: an instant, or     *)
(* Static (valid at every instant).  Lifetimes have no run-time            *)
(* representation; the model carries them where the types carry them.      *)
(* A conn of 0 and a lifetime of 0 stand for "none".                       *)
(*                                                                         *)
(* Spec       what the operations do, in any order an owner of the values  *)
(*            could run them;                                              *)
(* SpecSafe   the same operations in the orders the signatures allow to    *)
(*            safe callers: borrows exclude each other, and no value       *)
(*            outlives the lifetime its type names;                        *)
(* SpecUnsafe SpecSafe plus a swap of two carriers through Bound::_get_mut.*)
(*                                                                         *)
(* Definitions named <operation>_<fault> are faulty variants of the        *)
(* operation defined right after them; the properties are checked to fail  *)
(* on them.                                                                *)
(***************************************************************************)
EXTENDS Naturals, Sequences, FiniteSets

\* ---------------------------------------------------------------- bounds
MaxBounds == 2      \* carriers created in one run
MaxMuts == 1        \* writes made through get_mut on one carrier

Conns == {1, 2}                    \* Connection objects of the caller
Deltas == {1}                      \* what a caller adds to the counter through get_mut
Ids == 1..MaxBounds                \* carrier instances, in creation order
Lifetimes == {1, 2}                \* the instants, and so the non-static lifetimes
LastInstant == CHOOSE t \in Lifetimes : \A u \in Lifetimes : u <= t
Static == LastInstant + 1          \* 'static outlives every other lifetime

VARIABLES
    conn,      \* Connection objects: count, and the lifetime of the &mut borrow out on it
    st,        \* where each carrier is in its life
    bound,     \* the Bound struct of each carrier: limiter (its tag) and inner
    held,      \* the Transaction the caller owns after into_inner
    log,       \* per carrier, the ordered record of hook and teardown events
    hist,      \* per carrier in use: what was passed to new, the increments made through
               \* get_mut, and the last read through get (fresh until the next get_mut)
    tally,     \* per connection, the commits and aborts made and the increments through get_mut
    now,       \* the current instant
    refs,      \* per carrier, the references handed out by get / get_mut that are still usable
    unsafeUsed \* whether Bound::_get_mut was used by a caller to swap two carriers

vars == <<conn, st, bound, held, log, hist, tally, now, refs, unsafeUsed>>

\* ------------------------------------------------------------ data shapes
NoValue == [conn |-> 0, lt |-> 0]
NoInner == [static_cell |-> NoValue]
NoBound == [limiter |-> 0, inner |-> NoInner]
NoHist == [orig |-> NoValue, muts |-> 0, read |-> 0, fresh |-> FALSE]

\* An entry of a carrier's log: "pre_drop" (the hook is entered), "drop_value"
\* (the stored value's teardown run by the carrier, at lifetime lt),
\* "drop_fields" (Bound's field teardown), "drop_adapter" (the adapter's field
\* teardown), "caller_drop" (the value's teardown run by the caller who owns it).
Ev(op, lt) == [op |-> op, lt |-> lt]

RECURSIVE CountOp(_, _)
CountOp(s, op) ==
    IF s = <<>> THEN 0
    ELSE (IF Head(s).op = op THEN 1 ELSE 0) + CountOp(Tail(s), op)

\* Position of the first event `op` in s, 0 when there is none.
RECURSIVE FirstAt(_, _, _)
FirstAt(s, op, i) ==
    IF i > Len(s) THEN 0
    ELSE IF s[i].op = op THEN i
    ELSE FirstAt(s, op, i + 1)

\* ---------------------------------------------------------- test scaffold
\* Connection::transaction(&'conn mut self) -> Transaction<'conn>
transaction(k, a) == [conn |-> k, lt |-> a]

\* Variant: the teardown takes one increment back.
Transaction_drop_undoes(count) == IF count > 0 THEN count - 1 ELSE count
\* Transaction has no Drop impl: tearing it down gives back the borrow and
\* leaves the connection's counter as it is.
Transaction_drop(count) == count

\* Variant: the increment is applied twice.
commit_applied_twice(count) == count + 10 + 10
\* GTran::commit: trans.conn.count += 10
commit(count) == count + 10

\* GTran::abort: trans.conn.count += 3
abort(count) == count + 3

\* ------------------------------------------------------------------ Bound
\* Bound::new(inner) for the lifetime 'a: the tag is held by `limiter`
\* (PhantomData<&'a mut T>).
Bound_new(inner, a) == [limiter |-> a, inner |-> inner]

\* Bound::_get_mut(&mut self) -> &mut T
_get_mut(self) == self.inner

\* Deref::deref(&self) -> &T
deref(self) == self.inner

\* Variant: static_cell is not a ManuallyDrop, so the field teardown tears the
\* stored value down, at the lifetime it is stored with.
TransWrap_drop_plain_cell(inner) == <<Ev("drop_adapter", 0), Ev("drop_value", inner.static_cell.lt)>>
\* The adapter's own field teardown: its one field is a ManuallyDrop, whose
\* teardown does not tear down what it holds.
TransWrap_drop(inner) == <<Ev("drop_adapter", 0)>>

\* BoundExt::pre_drop as the macro implements it: the cell is reached through
\* _get_mut, recast from 'static to the carrier's 'a, and ManuallyDrop::drop runs
\* the stored value's teardown at that lifetime.
pre_drop(me) ==
    LET as_mut == [_get_mut(me).static_cell EXCEPT !.lt = me.limiter]
    IN  <<Ev("pre_drop", 0), Ev("drop_value", as_mut.lt)>>

\* Variant: Bound has no Drop impl; only the field teardown runs.
Bound_drop_no_hook(self) == <<Ev("drop_fields", 0)>> \o TransWrap_drop(self.inner)
\* impl Drop for Bound: the body calls the hook; then the language drops the
\* fields (limiter: nothing; inner: the adapter's teardown).
Bound_drop(self) ==
    pre_drop(self) \o <<Ev("drop_fields", 0)>> \o TransWrap_drop(self.inner)

\* Variant: the hook is run on self before inner is handed out.
_into_inner_runs_hook(self) == [inner |-> self.inner, events |-> pre_drop(self)]
\* Variant: self is not forgotten, so it is dropped when _into_inner returns.
_into_inner_not_forgotten(self) == [inner |-> self.inner, events |-> Bound_drop(self)]
\* Bound::_into_inner(self) -> T: inner is read out bitwise and self is
\* forgotten, so Bound's Drop does not run for self.
_into_inner(self) == [inner |-> self.inner, events |-> <<>>]

\* ------------------------------------------------- the generated adapter
\* Variant: the carrier is tagged with the erased lifetime.
new_keeps_static(value) ==
    Bound_new([static_cell |-> [value EXCEPT !.lt = Static]], Static)
\* $Type::new<'a>(value: $Inner<'a>) -> Bound<'a, Self>: the cell is transmuted
\* to $Inner<'static> and the carrier is tagged 'a.
new(value) ==
    Bound_new([static_cell |-> [value EXCEPT !.lt = Static]], value.lt)

\* Variant: the cell is handed out without the recast to 's.
get_static(me) == deref(me).static_cell
\* Variant: the view is of another object than the one get_mut writes.
get_other(me) ==
    [conn |-> CHOOSE k \in Conns : k # deref(me).static_cell.conn, lt |-> me.limiter]
\* $Type::get<'s, 'b: 's>(me: &'b Bound<'s, Self>) -> &'b $Inner<'s>
get(me) == [deref(me).static_cell EXCEPT !.lt = me.limiter]

\* $Type::get_mut<'s, 'b: 's>(me: &'b mut Bound<'s, Self>) -> &'b mut $Inner<'s>
get_mut(me) == [deref(me).static_cell EXCEPT !.lt = me.limiter]

\* Variant: the cell is handed back without the recast to 's.
into_inner_static(me) ==
    LET r == _into_inner(me)
    IN  [value |-> r.inner.static_cell, events |-> r.events]
\* Variant: the value is read out and the carrier then dropped as usual.
into_inner_via_drop(me) ==
    [value |-> [_get_mut(me).static_cell EXCEPT !.lt = me.limiter], events |-> Bound_drop(me)]
\* $Type::into_inner<'s>(me: Bound<'s, Self>) -> $Inner<'s>: the carrier is
\* taken apart by _into_inner and the cell is transmuted back to 's.
into_inner(me) ==
    LET r == _into_inner(me)
    IN  [value |-> [r.inner.static_cell EXCEPT !.lt = me.limiter], events |-> r.events]

\* ------------------------------------------------------------------- Init
Init ==
    /\ conn = [k \in Conns |-> [count |-> 0, loan |-> 0]]
    /\ st = [c \in Ids |-> "none"]
    /\ bound = [c \in Ids |-> NoBound]
    /\ held = [c \in Ids |-> NoValue]
    /\ log = [c \in Ids |-> <<>>]
    /\ hist = [c \in Ids |-> NoHist]
    /\ tally = [k \in Conns |-> [commits |-> 0, aborts |-> 0, incs |-> 0]]
    /\ now = 1
    /\ refs = [c \in Ids |-> {}]
    /\ unsafeUsed = FALSE

\* ------------------------------------------------ the operations, run-time
Free == {c \in Ids : st[c] = "none"}
NextId == CHOOSE c \in Free : \A d \in Free : c <= d

\* The connection a carrier's stored value borrows.
CellConn(c) == bound[c].inner.static_cell.conn

Release(cn, k) == [cn EXCEPT ![k].loan = 0]

\* GCon::create_transaction(&'conn mut self) -> Bound<'conn, TransWrap>:
\* self.transaction() borrows the connection for 'conn = a, TransWrap::new wraps it.
CreateCore(k, a) ==
    /\ Free # {}
    /\ conn[k].loan = 0
    /\ LET c == NextId
           v == transaction(k, a)
       IN  /\ conn' = [conn EXCEPT ![k].loan = a]
           /\ st' = [st EXCEPT ![c] = "live"]
           /\ bound' = [bound EXCEPT ![c] = new(v)]
           /\ hist' = [hist EXCEPT ![c] = [NoHist EXCEPT !.orig = v]]
    /\ UNCHANGED <<held, log, tally>>

\* A read of the counter through TransWrap::get(&bound).
GetCore(c) ==
    /\ st[c] = "live"
    /\ hist' = [hist EXCEPT ![c].read = conn[get(bound[c]).conn].count, ![c].fresh = TRUE]
    /\ UNCHANGED <<conn, st, bound, held, log, tally>>

\* TransWrap::get_mut(&mut bound).conn.count += d
GetMutCore(c, d) ==
    /\ st[c] = "live"
    /\ hist[c].muts < MaxMuts
    /\ LET k == get_mut(bound[c]).conn
       IN  conn' = [conn EXCEPT ![k].count = @ + d]
    /\ hist' = [hist EXCEPT ![c].muts = @ + 1, ![c].fresh = FALSE]
    /\ tally' = [tally EXCEPT ![hist[c].orig.conn].incs = @ + d]
    /\ UNCHANGED <<st, bound, held, log>>

\* &*bound: a shared view of the adapter, whose one field is private.
DerefCore(c) ==
    /\ st[c] = "live"
    /\ deref(bound[c]) = bound[c].inner
    /\ UNCHANGED <<conn, st, bound, held, log, hist, tally>>

\* let trans = TransWrap::into_inner(bound); the caller keeps trans.
IntoInnerCore(c) ==
    /\ st[c] = "live"
    /\ LET r == into_inner(bound[c])
       IN  /\ held' = [held EXCEPT ![c] = r.value]
           /\ log' = [log EXCEPT ![c] = @ \o r.events]
    /\ st' = [st EXCEPT ![c] = "unwrapped"]
    /\ hist' = [hist EXCEPT ![c] = [NoHist EXCEPT !.orig = hist[c].orig]]
    /\ bound' = [bound EXCEPT ![c].inner = NoInner]
    /\ UNCHANGED <<conn, tally>>

\* The caller lets go of the Transaction it got from into_inner.
DropValueCore(c) ==
    /\ st[c] = "unwrapped"
    /\ LET k == held[c].conn
       IN  conn' = Release([conn EXCEPT ![k].count = Transaction_drop(@)], k)
    /\ log' = [log EXCEPT ![c] = Append(@, Ev("caller_drop", held[c].lt))]
    /\ held' = [held EXCEPT ![c] = NoValue]
    /\ st' = [st EXCEPT ![c] = "finished"]
    /\ hist' = [hist EXCEPT ![c] = NoHist]
    /\ UNCHANGED <<bound, tally>>

\* GTran::commit(me): into_inner, count += 10, trans goes out of scope.
CommitCore(c) ==
    /\ st[c] = "live"
    /\ LET r == into_inner(bound[c])
           k == r.value.conn
       IN  /\ conn' = Release([conn EXCEPT ![k].count = Transaction_drop(commit(@))], k)
           /\ log' = [log EXCEPT ![c] = @ \o r.events \o <<Ev("caller_drop", r.value.lt)>>]
    /\ tally' = [tally EXCEPT ![hist[c].orig.conn].commits = @ + 1]
    /\ st' = [st EXCEPT ![c] = "finished"]
    /\ hist' = [hist EXCEPT ![c] = NoHist]
    /\ bound' = [bound EXCEPT ![c].inner = NoInner]
    /\ UNCHANGED held

\* GTran::abort(me): into_inner, count += 3, trans goes out of scope.
AbortCore(c) ==
    /\ st[c] = "live"
    /\ LET r == into_inner(bound[c])
           k == r.value.conn
       IN  /\ conn' = Release([conn EXCEPT ![k].count = Transaction_drop(abort(@))], k)
           /\ log' = [log EXCEPT ![c] = @ \o r.events \o <<Ev("caller_drop", r.value.lt)>>]
    /\ tally' = [tally EXCEPT ![hist[c].orig.conn].aborts = @ + 1]
    /\ st' = [st EXCEPT ![c] = "finished"]
    /\ hist' = [hist EXCEPT ![c] = NoHist]
    /\ bound' = [bound EXCEPT ![c].inner = NoInner]
    /\ UNCHANGED held

\* The carrier goes out of scope: Bound's Drop, then the field teardown.
DropCore(c) ==
    /\ st[c] = "live"
    /\ LET k == CellConn(c)
           after == Release([conn EXCEPT ![k].count = Transaction_drop(@)], k)
       IN  conn' = after
    /\ hist' = [hist EXCEPT ![c] = NoHist]
    /\ log' = [log EXCEPT ![c] = @ \o Bound_drop(bound[c])]
    /\ st' = [st EXCEPT ![c] = "dropped"]
    /\ bound' = [bound EXCEPT ![c].inner = NoInner]
    /\ UNCHANGED <<held, tally>>

\* let raw = bound._into_inner(); the caller keeps the raw adapter, whose type
\* names no lifetime, so the borrow of the connection is over.
RawIntoInnerCore(c) ==
    /\ st[c] = "live"
    /\ LET r == _into_inner(bound[c])
       IN  /\ bound' = [bound EXCEPT ![c].inner = r.inner]
           /\ log' = [log EXCEPT ![c] = @ \o r.events]
    /\ conn' = Release(conn, CellConn(c))
    /\ st' = [st EXCEPT ![c] = "raw"]
    /\ hist' = [hist EXCEPT ![c] = NoHist]
    /\ UNCHANGED <<held, tally>>

\* The caller lets go of the raw adapter.
DiscardRawCore(c) ==
    /\ st[c] = "raw"
    /\ log' = [log EXCEPT ![c] = @ \o TransWrap_drop(bound[c].inner)]
    /\ st' = [st EXCEPT ![c] = "leaked"]
    /\ bound' = [bound EXCEPT ![c].inner = NoInner]
    /\ UNCHANGED <<conn, held, hist, tally>>

\* ------------------------------------------- Spec: what the operations do
typing == <<now, refs, unsafeUsed>>

CreateTransaction(k, a) == CreateCore(k, a) /\ UNCHANGED typing
Get(c) == GetCore(c) /\ UNCHANGED typing
GetMut(c, d) == GetMutCore(c, d) /\ UNCHANGED typing
Deref(c) == DerefCore(c) /\ UNCHANGED typing
IntoInner(c) == IntoInnerCore(c) /\ UNCHANGED typing
DropValue(c) == DropValueCore(c) /\ UNCHANGED typing
Commit(c) == CommitCore(c) /\ UNCHANGED typing
Abort(c) == AbortCore(c) /\ UNCHANGED typing
Drop(c) == DropCore(c) /\ UNCHANGED typing
RawIntoInner(c) == RawIntoInnerCore(c) /\ UNCHANGED typing
DiscardRaw(c) == DiscardRawCore(c) /\ UNCHANGED typing

Next ==
    \/ \E k \in Conns, a \in Lifetimes : CreateTransaction(k, a)
    \/ \E c \in Ids : Get(c)
    \/ \E c \in Ids, d \in Deltas : GetMut(c, d)
    \/ \E c \in Ids : Deref(c)
    \/ \E c \in Ids : IntoInner(c)
    \/ \E c \in Ids : DropValue(c)
    \/ \E c \in Ids : Commit(c)
    \/ \E c \in Ids : Abort(c)
    \/ \E c \in Ids : Drop(c)
    \/ \E c \in Ids : RawIntoInner(c)
    \/ \E c \in Ids : DiscardRaw(c)

Spec == Init /\ [][Next]_vars

\* --------------------------- SpecSafe: the same operations, as safe callers
\* can order them.  The guards are what the signatures ask of the lifetimes.
Usable(r) == now <= r.life
Loans(c) == {r \in refs[c] : Usable(r)}
MutLoans(c) == {r \in Loans(c) : r.mut}

\* Bound is covariant in 'a (limiter: PhantomData<&'a mut T>): a carrier tagged
\* 'a is also a carrier tagged any shorter 's.
Coerce(me, s) == [me EXCEPT !.limiter = s]

\* get<'s, 'b: 's>(me: &'b Bound<'s, Self>): 's no longer than the tag (the
\* carrier coerced behind the shared reference), 'b: 's as declared, and 's: 'b
\* for &'b Bound<'s, Self> to be a type.
get_sig(tag, b, s) == s <= tag /\ b >= s /\ s >= b

\* get_mut<'s, 'b: 's>(me: &'b mut Bound<'s, Self>): behind &mut nothing is
\* coerced, so 's is the tag itself, and 'b: 's, 's: 'b as for get.
get_mut_sig(tag, b, s) == s = tag /\ b >= s /\ s >= b

\* An owned carrier can be used (moved, dropped) while its tag is still valid
\* and nothing borrowed from it is still usable.
Owned(c) == st[c] = "live" /\ now <= bound[c].limiter /\ Loans(c) = {}

SafeCreateTransaction(k, a) ==
    /\ now <= a
    /\ CreateCore(k, a)
    /\ UNCHANGED typing

SafeGet(c, b, s) ==
    /\ st[c] = "live"
    /\ now <= b
    /\ get_sig(bound[c].limiter, b, s)
    /\ MutLoans(c) = {}
    /\ GetCore(c)
    /\ refs' = [refs EXCEPT ![c] = Loans(c) \cup {[life |-> b, view |-> get(Coerce(bound[c], s)), mut |-> FALSE]}]
    /\ UNCHANGED <<now, unsafeUsed>>

SafeGetMut(c, b, s, d) ==
    /\ st[c] = "live"
    /\ now <= b
    /\ get_mut_sig(bound[c].limiter, b, s)
    /\ Loans(c) = {}
    /\ GetMutCore(c, d)
    /\ refs' = [refs EXCEPT ![c] = {[life |-> b, view |-> get_mut(Coerce(bound[c], s)), mut |-> TRUE]}]
    /\ UNCHANGED <<now, unsafeUsed>>

SafeDeref(c) ==
    /\ now <= bound[c].limiter
    /\ MutLoans(c) = {}
    /\ DerefCore(c)
    /\ UNCHANGED typing

\* The carrier is moved to a place whose type carries the shorter tag s.
SafeCoerce(c, s) ==
    /\ Owned(c)
    /\ now <= s
    /\ s < bound[c].limiter
    /\ bound' = [bound EXCEPT ![c] = Coerce(@, s)]
    /\ UNCHANGED <<conn, st, held, log, hist, tally, now, refs, unsafeUsed>>

SafeIntoInner(c) == Owned(c) /\ IntoInnerCore(c) /\ UNCHANGED typing
SafeDropValue(c) == now <= held[c].lt /\ DropValueCore(c) /\ UNCHANGED typing
SafeCommit(c) == Owned(c) /\ CommitCore(c) /\ UNCHANGED typing
SafeAbort(c) == Owned(c) /\ AbortCore(c) /\ UNCHANGED typing
SafeDrop(c) == Owned(c) /\ DropCore(c) /\ UNCHANGED typing
SafeRawIntoInner(c) == Owned(c) /\ RawIntoInnerCore(c) /\ UNCHANGED typing
SafeDiscardRaw(c) == DiscardRawCore(c) /\ UNCHANGED typing

\* Time passes.  No value outlives the lifetime its type names: a carrier is
\* gone by the end of its tag, a Transaction by the end of its lifetime.
Tick ==
    /\ now < LastInstant
    /\ \A c \in Ids : st[c] = "live" => now < bound[c].limiter
    /\ \A c \in Ids : st[c] = "unwrapped" => now < held[c].lt
    /\ now' = now + 1
    /\ refs' = [c \in Ids |-> {r \in refs[c] : now + 1 <= r.life}]
    /\ UNCHANGED <<conn, st, bound, held, log, hist, tally, unsafeUsed>>

SafeNext ==
    \/ \E k \in Conns, a \in Lifetimes : SafeCreateTransaction(k, a)
    \/ \E c \in Ids, b \in Lifetimes, s \in Lifetimes : SafeGet(c, b, s)
    \/ \E c \in Ids, b \in Lifetimes, s \in Lifetimes, d \in Deltas : SafeGetMut(c, b, s, d)
    \/ \E c \in Ids : SafeDeref(c)
    \/ \E c \in Ids, s \in Lifetimes : SafeCoerce(c, s)
    \/ \E c \in Ids : SafeIntoInner(c)
    \/ \E c \in Ids : SafeDropValue(c)
    \/ \E c \in Ids : SafeCommit(c)
    \/ \E c \in Ids : SafeAbort(c)
    \/ \E c \in Ids : SafeDrop(c)
    \/ \E c \in Ids : SafeRawIntoInner(c)
    \/ \E c \in Ids : SafeDiscardRaw(c)
    \/ Tick

SpecSafe == Init /\ [][SafeNext]_vars

\* ------------------- SpecUnsafe: a caller also reaches for Bound::_get_mut
\* mem::swap(a._get_mut(), b._get_mut()) on two carriers the caller owns.
Swap(c1, c2) ==
    /\ c1 # c2
    /\ Owned(c1)
    /\ Owned(c2)
    /\ bound' = [bound EXCEPT ![c1].inner = _get_mut(bound[c2]), ![c2].inner = _get_mut(bound[c1])]
    /\ unsafeUsed' = TRUE
    /\ UNCHANGED <<conn, st, held, log, hist, tally, now, refs>>

UnsafeNext ==
    \/ SafeNext
    \/ \E c1 \in Ids, c2 \in Ids : Swap(c1, c2)

SpecUnsafe == Init /\ [][UnsafeNext]_vars

\* ----------------------------------------------------------- the claims
Hooks(c) == CountOp(log[c], "pre_drop")
FieldDrops(c) == CountOp(log[c], "drop_fields")
HookTeardowns(c) == CountOp(log[c], "drop_value")
CallerTeardowns(c) == CountOp(log[c], "caller_drop")
At(c, op) == FirstAt(log[c], op, 1)
Expected(k) == 10 * tally[k].commits + 3 * tally[k].aborts + tally[k].incs

\* C1: a carrier that is dropped has had pre_drop run exactly once, and the hook
\* (with the teardown it performs) comes before the field-by-field teardown;
\* no carrier's log shows field teardown before or without the hook.
C1_DropRunsHookBeforeFields ==
    \A c \in Ids :
        /\ st[c] = "dropped" =>
            /\ Hooks(c) = 1
            /\ FieldDrops(c) = 1
            /\ At(c, "pre_drop") < At(c, "drop_value")
            /\ At(c, "drop_value") < At(c, "drop_fields")
            /\ At(c, "drop_fields") < At(c, "drop_adapter")
        /\ FieldDrops(c) > 0 => (Hooks(c) > 0 /\ At(c, "pre_drop") < At(c, "drop_fields"))

C1_Witness == \E c \in Ids : st[c] = "dropped" /\ FieldDrops(c) = 1

Ended(c) == st[c] \in {"dropped", "unwrapped", "finished", "raw", "leaked"}

\* C2 as stated: every carrier whose life has ended, however it ended, has had
\* the hook run exactly once.
C2_HookOnceHoweverEnded == \A c \in Ids : Ended(c) => Hooks(c) = 1

\* C2 amended: the hook runs at most once per carrier; exactly once for a carrier
\* ended by drop, and then before any field-level teardown; not at all for a
\* carrier consumed by into_inner or _into_inner.
C2_HookOnceIffDropped ==
    \A c \in Ids :
        /\ Hooks(c) <= 1
        /\ (st[c] = "dropped") <=> (Hooks(c) = 1)
        /\ Hooks(c) = 1 => At(c, "pre_drop") < At(c, "drop_adapter")
        /\ st[c] \in {"unwrapped", "finished", "raw", "leaked"} => Hooks(c) = 0

C2_Witness ==
    \E c, d \in Ids : st[c] = "dropped" /\ Hooks(c) = 1 /\ st[d] = "finished" /\ Hooks(d) = 0

\* C3: for a carrier consumed by into_inner neither the hook nor Bound's field
\* teardown runs and the carrier tears down nothing; the value is the caller's,
\* torn down by the caller alone and at most once.
C3_IntoInnerSkipsHook ==
    \A c \in Ids :
        st[c] \in {"unwrapped", "finished"} =>
            /\ Hooks(c) = 0
            /\ FieldDrops(c) = 0
            /\ HookTeardowns(c) = 0
            /\ CountOp(log[c], "drop_adapter") = 0
            /\ st[c] = "unwrapped" => (CallerTeardowns(c) = 0 /\ held[c].conn \in Conns)
            /\ st[c] = "finished" => (CallerTeardowns(c) = 1 /\ held[c] = NoValue)

C3_Witness == \E c \in Ids : st[c] = "finished" /\ CallerTeardowns(c) = 1

\* C4: the value into_inner hands back is the value that was given to new, same
\* connection and same lifetime, and the counter it borrows holds what the
\* caller's own writes put there.
C4_RoundTrip ==
    \A c \in Ids :
        st[c] = "unwrapped" =>
            /\ held[c] = hist[c].orig
            /\ conn[held[c].conn].count = Expected(held[c].conn)

C4_Witness == \E c \in Ids : st[c] = "unwrapped" /\ held[c] = hist[c].orig /\ held[c].lt \in Lifetimes

\* C5: every usable reference from get / get_mut lives no longer than the
\* carrier's tag, views the value at a lifetime no longer than the tag, and the
\* tag no longer than the original borrow; while it is usable the carrier is
\* still there and the original borrow still on.  A value from into_inner has a
\* lifetime no longer than the tag and the original borrow, which is still on.
C5_LifetimeContainment ==
    \A c \in Ids :
        /\ \A r \in refs[c] :
            Usable(r) =>
                /\ r.life <= bound[c].limiter
                /\ r.life <= r.view.lt
                /\ r.view.lt <= bound[c].limiter
                /\ bound[c].limiter <= hist[c].orig.lt
                /\ st[c] = "live"
                /\ r.view.conn = hist[c].orig.conn
                /\ conn[r.view.conn].loan = hist[c].orig.lt
                /\ now <= hist[c].orig.lt
        /\ st[c] = "unwrapped" =>
            /\ held[c].lt <= bound[c].limiter
            /\ held[c].lt <= hist[c].orig.lt
            /\ now <= held[c].lt
            /\ conn[held[c].conn].loan = hist[c].orig.lt

C5_Witness ==
    \E c \in Ids : \E r \in refs[c] : Usable(r) /\ r.life < hist[c].orig.lt /\ st[c] = "live"

\* C6: a read through get that follows the writes made through get_mut on the
\* same carrier sees the counter with those writes in it, and get has changed
\* nothing.
C6_ReadAfterWrite ==
    \A c \in Ids :
        (st[c] = "live" /\ hist[c].fresh) =>
            /\ hist[c].read = conn[hist[c].orig.conn].count
            /\ hist[c].read = Expected(hist[c].orig.conn)

C6_Witness == \E c \in Ids : st[c] = "live" /\ hist[c].fresh /\ hist[c].muts > 0 /\ hist[c].read > 0

Holders(k) ==
    {c \in Ids : \/ st[c] = "live" /\ CellConn(c) = k
                 \/ st[c] = "unwrapped" /\ held[c].conn = k}

\* C7: on a connection written only by commit and abort the counter is
\* 10 * commits + 3 * aborts, and once no transaction holds the connection its
\* borrow is released.
C7_CommitAbortCounter ==
    \A k \in Conns :
        /\ tally[k].incs = 0 => conn[k].count = 10 * tally[k].commits + 3 * tally[k].aborts
        /\ Holders(k) = {} => conn[k].loan = 0

C7_Witness ==
    \E k \in Conns : tally[k] = [commits |-> 1, aborts |-> 1, incs |-> 0] /\ conn[k].count = 13

\* C8: the step that drops a carrier leaves the counter its value borrows as it
\* was, holding each increment made through get_mut once.
C8_DropKeepsMutation ==
    [][\A c \in Ids :
          (st[c] = "live" /\ st'[c] = "dropped") =>
              /\ conn'[hist[c].orig.conn].count = conn[hist[c].orig.conn].count
              /\ conn[hist[c].orig.conn].count = Expected(hist[c].orig.conn)]_vars

C8_Witness ==
    \E k \in Conns :
        /\ st[1] = "dropped"
        /\ \A c \in Ids \ {1} : st[c] = "none"
        /\ tally[k] = [commits |-> 0, aborts |-> 0, incs |-> 1]
        /\ conn[k].count = 1

\* C9: a dropped carrier's log is the hook, the stored value's teardown at the
\* carrier's tag (a lifetime of the program, not 'static), then the field
\* teardown, which tears down nothing: one teardown of the value in all.
C9_HookTearsDownOnce ==
    \A c \in Ids :
        st[c] = "dropped" =>
            /\ bound[c].limiter \in Lifetimes
            /\ log[c] = <<Ev("pre_drop", 0), Ev("drop_value", bound[c].limiter),
                          Ev("drop_fields", 0), Ev("drop_adapter", 0)>>
            /\ HookTeardowns(c) + CallerTeardowns(c) = 1

C9_Witness == \E c \in Ids : st[c] = "dropped" /\ HookTeardowns(c) = 1 /\ Len(log[c]) = 4

\* C10: a live carrier whose tag is longer than the borrow its stored value
\* holds exists only after Bound::_get_mut was used to swap two carriers.
C10_TagWithinContent ==
    \A c \in Ids :
        (st[c] = "live" /\ bound[c].limiter > conn[CellConn(c)].loan) => unsafeUsed

C10_Witness ==
    \E c \in Ids :
        /\ st[c] = "live"
        /\ conn[CellConn(c)].loan \in Lifetimes
        /\ bound[c].limiter > conn[CellConn(c)].loan

\* C11: a carrier taken apart by _into_inner has had no hook and no teardown of
\* its stored value, and the raw adapter still holds that value; once the caller
\* lets the raw adapter go, only the adapter's field teardown has run: the
\* stored value has been torn down zero times.
C11_RawAdapterLeaks ==
    \A c \in Ids :
        /\ st[c] = "raw" =>
            /\ log[c] = <<>>
            /\ bound[c].inner.static_cell.conn \in Conns
            /\ bound[c].inner.static_cell.lt = Static
        /\ st[c] = "leaked" =>
            /\ log[c] = <<Ev("drop_adapter", 0)>>
            /\ Hooks(c) = 0
            /\ HookTeardowns(c) + CallerTeardowns(c) = 0

C11_Witness ==
    \E c \in Ids :
        st[c] = "leaked" /\ CountOp(log[c], "drop_adapter") = 1 /\ HookTeardowns(c) + CallerTeardowns(c) = 0

====
